---- MODULE Spec2Model ----
(***************************************************************************)
(* NovaVA backend: the conversation-session continuity mechanism.          *)
(*                                                                         *)
(* POST /api/conversation/text validates the body, then calls              *)
(* VapiService.generateTextResponse, which reads the in-memory session     *)
(* store (chatSessions), builds the /chat payload, awaits the provider and *)
(* only then writes the store.  A JavaScript handler runs without          *)
(* interruption up to its await, so every request is two atomic steps:     *)
(* PostConversationText (validation, store read, payload, POST /chat) and  *)
(* UpstreamSuccess or UpstreamFailure (what runs after the await).         *)
(***************************************************************************)
EXTENDS Integers, Sequences, FiniteSets, TLC

\* ------------------------------------------------------------------ bounds
NumRequests == 2      \* requests that can be in flight at the same time
MaxReceived == 3      \* requests received over a run
MaxClock    == 2      \* distinct clock readings

\* ------------------------------------------------------- program constants
MaxMessageLength == 1000
MaxTtsLength == 2000

\* ------------------------------------------------------------ JS values
Undefined   == "undefined"          \* undefined / null / absent property
EmptyString == ""

\* JavaScript truthiness of the string-like values of this model
Truthy(v) == v \notin {Undefined, EmptyString}

\* a || b
OrElse(a, b) == IF Truthy(a) THEN a ELSE b

\* ---------------------------------------------------------- session ids
\* the n-th value returned by uuidv4(): never returned before
Uuid(n) == "u" \o ToString(n)

Uuids        == {Uuid(n) : n \in 1..MaxReceived}
CallerIds    == {"c1"}              \* an id pre-selected by a caller
MalformedIds == {"#123"}            \* a sessionId that is not a UUID string
StoreKeys    == Uuids \cup CallerIds \cup MalformedIds

\* ids of the chats the provider creates (response.data.id)
ChatIds == {"k1", "k2"}

\* ------------------------------------------------------------- messages
\* A body's message: its typeof, and for a string the number of leading
\* whitespace characters, of characters from the first to the last
\* non-whitespace one, and of trailing whitespace characters.
Msg(t, l, c, r) == [type |-> t, lead |-> l, core |-> c, trail |-> r]

Messages ==
    { Msg("undefined", 0, 0, 0),          \* no message in the body
      Msg("number", 0, 0, 0),             \* message: 123
      Msg("string", 0, 0, 0),             \* ""
      Msg("string", 2, 0, 0),             \* "  "
      Msg("string", 0, 1, 0),             \* "a"
      Msg("string", 1, MaxMessageLength - 2, 1),   \* 1000 characters
      Msg("string", 0, MaxMessageLength + 1, 0),   \* 1001 characters
      Msg("string", 1, MaxMessageLength - 1, 1) }  \* 1001, 999 when trimmed

\* the messages of the turns of Spec: one the route accepts, one it rejects
TurnMessages == { Msg("string", 0, 1, 0), Msg("string", 2, 0, 0) }

Length(m)     == m.lead + m.core + m.trail    \* message.length
TrimLength(m) == m.core                       \* message.trim().length

\* !message
NotMessage(m) == m.type = "undefined" \/ (m.type = "string" /\ Length(m) = 0)

\* first validation of the route
MessageInvalid(m) == NotMessage(m) \/ m.type # "string" \/ TrimLength(m) = 0

\* the length check written with >= : 1000 characters are refused
MessageTooLong_OffByOne(m) == Length(m) >= MaxMessageLength

\* second validation of the route
MessageTooLong(m) == Length(m) > MaxMessageLength

\* ---------------------------------------------------------- session store
UndefinedSession ==
    [sessionId |-> Undefined, lastChatId |-> Undefined, lastMessageAt |-> 0,
     messagesCount |-> 0, createdAt |-> 0]

\* chatSessions.get(k)
Get(store, k) == IF k \in DOMAIN store THEN store[k] ELSE UndefinedSession

\* a store that keeps only the record written last
Set_ClearsOthers(store, k, v) == [x \in {k} |-> v]

\* chatSessions.set(k, v)
Set(store, k, v) ==
    [x \in DOMAIN store \cup {k} |-> IF x = k THEN v ELSE store[x]]

\* a fixed default id in place of uuidv4()
CurrentSessionId_FixedDefault(sessionId, uuid) == OrElse(sessionId, "c1")

\* a new id minted for every call, the caller's id ignored
CurrentSessionId_AlwaysMint(sessionId, uuid) == uuid

\* const currentSessionId = sessionId || uuidv4()
CurrentSessionId(sessionId, uuid) == OrElse(sessionId, uuid)

\* sessionId && sessionData && sessionData.lastChatId
IsContinuingSession(sessionId, sessionData) ==
    /\ Truthy(sessionId)
    /\ sessionData # UndefinedSession
    /\ Truthy(sessionData.lastChatId)

\* the session id sent where the provider's chat id belongs
ChatPayload_SendsSessionId(message, sessionId, sessionData, assistantId) ==
    [input          |-> message,
     previousChatId |-> IF IsContinuingSession(sessionId, sessionData)
                        THEN sessionData.sessionId ELSE Undefined,
     assistantId    |-> IF Truthy(assistantId) THEN assistantId ELSE Undefined,
     assistant      |-> IF Truthy(assistantId) THEN Undefined
                        ELSE "defaultAssistantConfig"]

\* the transient assistant sent even when an assistantId is configured
ChatPayload_BothConfigs(message, sessionId, sessionData, assistantId) ==
    [input          |-> message,
     previousChatId |-> IF IsContinuingSession(sessionId, sessionData)
                        THEN sessionData.lastChatId ELSE Undefined,
     assistantId    |-> IF Truthy(assistantId) THEN assistantId ELSE Undefined,
     assistant      |-> "defaultAssistantConfig"]

\* the body of POST /chat
ChatPayload(message, sessionId, sessionData, assistantId) ==
    [input          |-> message,
     previousChatId |-> IF IsContinuingSession(sessionId, sessionData)
                        THEN sessionData.lastChatId ELSE Undefined,
     assistantId    |-> IF Truthy(assistantId) THEN assistantId ELSE Undefined,
     assistant      |-> IF Truthy(assistantId) THEN Undefined
                        ELSE "defaultAssistantConfig"]

\* the counter restarted at every turn
UpdatedSessionData_CountReset(currentSessionId, sessionData, id, t) ==
    [sessionId     |-> currentSessionId,
     lastChatId    |-> id,
     lastMessageAt |-> t,
     messagesCount |-> 1,
     createdAt     |-> IF sessionData.createdAt # 0
                       THEN sessionData.createdAt ELSE t]

\* the sessionId field copied from the record read before the call
UpdatedSessionData_KeepsOldId(currentSessionId, sessionData, id, t) ==
    [sessionId     |-> sessionData.sessionId,
     lastChatId    |-> id,
     lastMessageAt |-> t,
     messagesCount |-> sessionData.messagesCount + 1,
     createdAt     |-> IF sessionData.createdAt # 0
                       THEN sessionData.createdAt ELSE t]

\* the token of the first turn kept for the life of the session
UpdatedSessionData_KeepsFirstToken(currentSessionId, sessionData, id, t) ==
    [sessionId     |-> currentSessionId,
     lastChatId    |-> OrElse(sessionData.lastChatId, id),
     lastMessageAt |-> t,
     messagesCount |-> sessionData.messagesCount + 1,
     createdAt     |-> IF sessionData.createdAt # 0
                       THEN sessionData.createdAt ELSE t]

\* updatedSessionData; t is new Date().toISOString()
UpdatedSessionData(currentSessionId, sessionData, id, t) ==
    [sessionId     |-> currentSessionId,
     lastChatId    |-> id,
     lastMessageAt |-> t,
     messagesCount |-> sessionData.messagesCount + 1,
     createdAt     |-> IF sessionData.createdAt # 0
                       THEN sessionData.createdAt ELSE t]

\* VapiService.getChatHistory(sessionId).data
GetChatHistory(store, sessionId) ==
    IF Get(store, sessionId) = UndefinedSession
    THEN [sessionId |-> sessionId, lastChatId |-> Undefined,
          lastMessageAt |-> 0, messagesCount |-> 0, createdAt |-> 0,
          found |-> FALSE]
    ELSE [sessionId |-> sessionId,
          lastChatId |-> Get(store, sessionId).lastChatId,
          lastMessageAt |-> Get(store, sessionId).lastMessageAt,
          messagesCount |-> Get(store, sessionId).messagesCount,
          createdAt |-> IF Get(store, sessionId).createdAt # 0
                        THEN Get(store, sessionId).createdAt
                        ELSE Get(store, sessionId).lastMessageAt,
          found |-> TRUE]

\* ------------------------------------------------------------ the provider
\* what the awaited vapiClient.post rejects with: an axios error with a
\* response body carrying a message, one with a response body without a
\* message, and a transport error or timeout without response
\* error.response (with its status and data.message), error.message and
\* error.code of the axios error
AxiosError(response, status, dataMessage, message, code) ==
    [response |-> response, status |-> status, dataMessage |-> dataMessage,
     message |-> message, code |-> code]

UpstreamErrors ==
    { AxiosError(TRUE, 401, "Invalid Key",
                 "Request failed with status code 401", "ERR_BAD_REQUEST"),
      AxiosError(TRUE, 500, Undefined,
                 "Request failed with status code 500", "ERR_BAD_RESPONSE"),
      AxiosError(FALSE, 0, Undefined,
                 "timeout of 30000ms exceeded", "ECONNABORTED") }

\* no failure
NoError == AxiosError(FALSE, 0, Undefined, Undefined, Undefined)

\* response.data.id of a successful response; a body may lack the field
ResponseIds == ChatIds \cup {Undefined}

\* response.data.output: absent, a value that is not an array, or an array
\* of role-tagged entries
Output(k, items) == [kind |-> k, items |-> items]

Turn(role, content) == [role |-> role, content |-> content]

\* response.data of a 2xx answer of /chat
Body(id, output, content, message, response) ==
    [id |-> id, output |-> output, content |-> content,
     message |-> message, response |-> response]

NoOutput == Output("undefined", <<>>)

\* no 2xx answer
NoBody == Body(Undefined, NoOutput, Undefined, Undefined, Undefined)

\* the standard format: one assistant entry, no flat field
StandardBody(id) ==
    Body(id, Output("array", <<Turn("assistant", "Hello")>>),
         Undefined, Undefined, Undefined)

Outputs ==
    { NoOutput,
      Output("string", <<>>),
      Output("array", <<>>),
      Output("array", <<Turn("user", "U")>>),
      Output("array", <<Turn("assistant", "A")>>),
      Output("array", <<Turn("assistant", EmptyString)>>),
      Output("array", <<Turn("assistant", "A"), Turn("assistant", "B")>>),
      Output("array", <<Turn("user", "U"), Turn("assistant", "B")>>),
      Output("array", <<Turn("assistant", EmptyString), Turn("assistant", "B")>>) }

\* the 2xx bodies of SpecReply
ResponseBodies ==
    { Body("k1", o, c, m, x) :
        o \in Outputs, c \in {Undefined, EmptyString, "C"},
        m \in {Undefined, "M"}, x \in {Undefined, "R"} }

\* the canned reply
FallbackResponse == "I'm here to help! Could you please rephrase your question?"

\* output.find(msg => msg.role === 'assistant'): the index of the first
\* assistant entry, 0 when there is none
FindAssistant(items) ==
    IF \E i \in 1..Len(items) : items[i].role = "assistant"
    THEN CHOOSE i \in 1..Len(items) :
            /\ items[i].role = "assistant"
            /\ \A j \in 1..(i - 1) : items[j].role # "assistant"
    ELSE 0

\* the flat content field probed before the turn list
Extracted_FlatFirst(data) ==
    IF Truthy(data.content) THEN data.content
    ELSE IF data.output.kind = "array"
            /\ FindAssistant(data.output.items) # 0
            /\ Truthy(data.output.items[FindAssistant(data.output.items)].content)
    THEN data.output.items[FindAssistant(data.output.items)].content
    ELSE IF Truthy(data.message) THEN data.message
    ELSE IF Truthy(data.response) THEN data.response
    ELSE EmptyString

\* the if / else-if chain of the extraction: aiResponse before the fallback
Extracted(data) ==
    IF data.output.kind = "array"
    THEN IF FindAssistant(data.output.items) # 0
            /\ Truthy(data.output.items[FindAssistant(data.output.items)].content)
         THEN data.output.items[FindAssistant(data.output.items)].content
         ELSE EmptyString
    ELSE IF Truthy(data.content) THEN data.content
    ELSE IF Truthy(data.message) THEN data.message
    ELSE IF Truthy(data.response) THEN data.response
    ELSE EmptyString

\* the extraction without its fallback
AiResponse_NoFallback(data) == Extracted(data)

\* aiResponse as returned: the fallback when nothing was extracted
AiResponse(data) ==
    IF Truthy(Extracted(data)) THEN Extracted(data) ELSE FallbackResponse

\* ------------------------------------------------------------------ state
VARIABLES
    chatSessions,        \* the Map of the service module
    req,                 \* per request in flight: body and locals of the call
    last,                \* the exchange answered most recently
    minted,              \* number of uuidv4() calls made so far
    now,                 \* the clock read by new Date()
    defaultAssistantId,  \* config.vapi.defaultAssistantId
    received,            \* number of requests received so far
    succeeded,           \* history: successful turns per session id
    overlapped,          \* history: session ids that had two turns in flight at once
    writes,              \* history: chatSessions.set calls per session id
    history,             \* the history query answered most recently
    reply,               \* the answer sent most recently by another route
    ui                   \* the state of the ChatInterface component

vars == <<chatSessions, req, last, minted, now, defaultAssistantId, received,
          succeeded, overlapped, writes, history, reply, ui>>

Requests == 1..NumRequests

NoMessage == Msg("undefined", 0, 0, 0)

NoPayload ==
    [input |-> NoMessage, previousChatId |-> Undefined,
     assistantId |-> Undefined, assistant |-> Undefined]

\* no response sent yet
NoResponse ==
    [status |-> 0, success |-> FALSE, response |-> Undefined,
     sessionId |-> Undefined, chatId |-> Undefined, errorMessage |-> Undefined,
     keys |-> {}, errorKeys |-> {}]

IdleRequest ==
    [pc |-> "idle", message |-> NoMessage, sessionId |-> Undefined,
     currentSessionId |-> Undefined, sessionData |-> UndefinedSession,
     chatPayload |-> NoPayload, calls |-> 0]

\* an answered exchange: the body received, the session id the call worked
\* with, the number of /chat calls it made, what /chat answered (a 2xx
\* body or an error) and the response sent
Exchange(request, data, error, res) ==
    [message |-> request.message, sessionId |-> request.sessionId,
     currentSessionId |-> request.currentSessionId,
     calls |-> request.calls, data |-> data, error |-> error, res |-> res]

\* res.status(400).json({success: false, error: {message, statusCode: 400}})
ValidationResponse(text) ==
    [status |-> 400, success |-> FALSE, response |-> Undefined,
     sessionId |-> Undefined, chatId |-> Undefined, errorMessage |-> text,
     keys |-> {"success", "error"}, errorKeys |-> {"message", "statusCode"}]

\* res.json({success: true, data: {response, sessionId, chatId, ...}})
SuccessResponse(currentSessionId, data) ==
    [status |-> 200, success |-> TRUE, response |-> AiResponse(data),
     sessionId |-> currentSessionId, chatId |-> data.id,
     errorMessage |-> Undefined,
     keys |-> {"success", "data"}, errorKeys |-> {}]

\* an Error object as errorHandler reads it
Err(name, message, statusCode, code, response, responseStatus, dataMessage) ==
    [name |-> name, message |-> message, statusCode |-> statusCode,
     code |-> code, response |-> response, responseStatus |-> responseStatus,
     dataMessage |-> dataMessage]

\* the catch block: new Error(`Failed to generate text response: ${...}`),
\* an Error with a message and nothing else
WrappedError(error) ==
    Err("Error",
        "Failed to generate text response: "
            \o OrElse(error.dataMessage, error.message),
        0, Undefined, FALSE, 0, Undefined)

\* errorHandler: the status it answers with
HandlerStatus(err) ==
    IF err.name = "ValidationError" THEN 400
    ELSE IF err.name = "CastError" THEN 400
    ELSE IF err.code = "11000" THEN 400
    ELSE IF err.name = "JsonWebTokenError" THEN 401
    ELSE IF err.name = "TokenExpiredError" THEN 401
    ELSE IF err.code = "ECONNREFUSED" THEN 503
    ELSE IF err.response /\ err.responseStatus # 0 THEN err.responseStatus
    ELSE IF err.statusCode # 0 THEN err.statusCode
    ELSE 500

\* errorHandler: the message it answers with
HandlerMessage(err) ==
    IF err.name = "ValidationError" THEN "Validation Error"
    ELSE IF err.name = "CastError" THEN "Invalid ID format"
    ELSE IF err.code = "11000" THEN "Duplicate field value"
    ELSE IF err.name = "JsonWebTokenError" THEN "Invalid token"
    ELSE IF err.name = "TokenExpiredError" THEN "Token expired"
    ELSE IF err.code = "ECONNREFUSED" THEN "External service unavailable"
    ELSE IF err.response /\ err.responseStatus # 0
    THEN OrElse(err.dataMessage, "External API error")
    ELSE OrElse(err.message, "Internal Server Error")

\* errorHandler: the top-level fields of errorResponse
ErrorHandlerKeys == {"success", "error", "timestamp", "path", "method"}

\* the response of errorHandler to the Error the catch block threw and
\* asyncHandler passed on
ErrorResponse(error) ==
    [status |-> HandlerStatus(WrappedError(error)), success |-> FALSE,
     response |-> Undefined, sessionId |-> Undefined, chatId |-> Undefined,
     errorMessage |-> HandlerMessage(WrappedError(error)),
     keys |-> ErrorHandlerKeys, errorKeys |-> {"message", "statusCode"}]

\* the sessionId values the callers of Spec put in a body: none, an id of
\* their own, or a minted id they have learnt; a minted id leaves the
\* server only in a success response, whose turn has written the record of
\* that id
SuppliedIds ==
    {Undefined} \cup (Uuids \cap DOMAIN chatSessions) \cup CallerIds

\* the sessionId values of the callers of SpecValidation: none, an empty
\* string, a malformed one
UncheckedIds == {Undefined, EmptyString} \cup MalformedIds

\* ------------------------------------------------------- the other routes
\* checkServicesHealth: healthStatus; vapiOk and elevenOk say whether the
\* test calls resolved, apiKey is config.elevenlabs.apiKey
CheckServicesHealth(vapiOk, apiKey, elevenOk) ==
    LET vapi == IF vapiOk THEN "connected" ELSE "disconnected"
        elevenlabs == IF Truthy(apiKey) /\ elevenOk
                      THEN "connected" ELSE "disconnected"
        connectedServices ==
            (IF vapi = "connected" THEN 1 ELSE 0)
                + (IF elevenlabs = "connected" THEN 1 ELSE 0)
        totalServices == 2
    IN  [overall |-> IF connectedServices = 0 THEN "critical"
                     ELSE IF connectedServices < totalServices
                     THEN "degraded" ELSE "healthy",
         vapi |-> vapi, elevenlabs |-> elevenlabs, threw |-> FALSE]

\* the health of the route's catch block
HealthFailure ==
    [overall |-> "critical", vapi |-> Undefined, elevenlabs |-> Undefined,
     threw |-> TRUE]

\* no health in the answer
NoHealth ==
    [overall |-> Undefined, vapi |-> Undefined, elevenlabs |-> Undefined,
     threw |-> FALSE]

\* the status of a degraded service answered as if it were healthy
HealthStatusCode_DegradedOk(overall) ==
    IF overall = "critical" THEN 503 ELSE 200

\* GET /api: statusCode
HealthStatusCode(overall) ==
    IF overall = "degraded" THEN 206
    ELSE IF overall = "critical" THEN 503
    ELSE 200

\* response.data of an arraybuffer request: a Buffer of n bytes, an object
Buffer(n) == [object |-> TRUE, length |-> n]

\* no response.data
NoData == [object |-> FALSE, length |-> 0]

\* what the ElevenLabs call of one request came to
ElevenOutcome(kind, status, data, detail, message) ==
    [kind |-> kind, status |-> status, data |-> data, detail |-> detail,
     message |-> message]

NoElevenOutcome == ElevenOutcome("none", 0, NoData, Undefined, Undefined)

ElevenOutcomes ==
    { ElevenOutcome("response", 200, Buffer(3), Undefined, Undefined),
      ElevenOutcome("response", 200, Buffer(0), Undefined, Undefined),
      ElevenOutcome("response", 201, Buffer(3), Undefined, Undefined),
      ElevenOutcome("error", 401, NoData, "Invalid API key",
                    "Request failed with status code 401"),
      ElevenOutcome("error", 0, NoData, Undefined,
                    "timeout of 30000ms exceeded") }

\* audioBuffer.toString('base64') of a Buffer of n bytes, n in 0..3
Base64(n) == IF n = 0 THEN "" ELSE "QUJD"

\* generateElevenLabsTTS: its result and the number of requests it sent
GenerateElevenLabsTTS(apiKey, outcome) ==
    IF ~ Truthy(apiKey)
    THEN [success |-> FALSE, audioUrl |-> Undefined, audioSize |-> 0,
          error |-> "ElevenLabs API key not configured", calls |-> 0]
    ELSE IF outcome.kind = "response"
    THEN IF outcome.status = 200 /\ outcome.data.object
         THEN [success |-> TRUE,
               audioUrl |-> "data:audio/mpeg;base64,"
                               \o Base64(outcome.data.length),
               audioSize |-> outcome.data.length,
               error |-> Undefined, calls |-> 1]
         ELSE [success |-> FALSE, audioUrl |-> Undefined, audioSize |-> 0,
               error |-> "ElevenLabs API error: " \o ToString(outcome.status),
               calls |-> 1]
    ELSE [success |-> FALSE, audioUrl |-> Undefined, audioSize |-> 0,
          error |-> OrElse(outcome.detail, outcome.message), calls |-> 1]

\* getTTSConfig: the message of the Error it throws, or Undefined
TtsConfigError(result) ==
    IF result.success THEN Undefined
    ELSE "TTS generation failed: ElevenLabs TTS failed: " \o result.error

\* the texts of the TTS requests: none, "a", 2001 characters
TtsTexts ==
    { Msg("undefined", 0, 0, 0), Msg("string", 0, 1, 0),
      Msg("string", 0, MaxTtsLength + 1, 0) }

\* POST /conversation/tts: the 400 message of its validations, or Undefined
TtsValidationError(text) ==
    IF MessageInvalid(text)
    THEN "Text is required and must be a non-empty string"
    ELSE IF Length(text) > MaxTtsLength
    THEN "Text is too long for TTS. Maximum length is 2000 characters"
    ELSE Undefined

\* no TTS in the answer
NoTts ==
    [text |-> NoMessage, apiKey |-> Undefined, outcome |-> NoElevenOutcome,
     audioUrl |-> Undefined, audioSize |-> 0, calls |-> 0,
     errorMessage |-> Undefined]

\* an answer of one of the other routes: its status, the fields of its
\* body and of the body's error object, and what it says
Reply(route, status, keys, errorKeys, success, health, tts) ==
    [route |-> route, status |-> status, keys |-> keys,
     errorKeys |-> errorKeys, success |-> success, health |-> health,
     tts |-> tts]

\* no answer yet
NoReply == Reply("none", 0, {}, {}, FALSE, NoHealth, NoTts)

\* app.use('*'): the 404 of an unknown route
NotFoundReply ==
    Reply("unknown", 404, {"error", "message", "statusCode"}, {}, FALSE,
          NoHealth, NoTts)

\* GET /api: the answer of the try block or of the catch block
HealthReply(healthStatus, throws) ==
    IF throws
    THEN Reply("health", 503, {"name", "version", "health", "timestamp"}, {},
               FALSE, HealthFailure, NoTts)
    ELSE Reply("health", HealthStatusCode(healthStatus.overall),
               {"name", "version", "description", "author", "endpoints",
                "health", "timestamp"}, {}, FALSE, healthStatus, NoTts)

\* POST /conversation/tts: the answer
TtsReply(text, apiKey, outcome) ==
    LET result == GenerateElevenLabsTTS(apiKey, outcome)
        asked == [NoTts EXCEPT !.text = text, !.apiKey = apiKey]
    IN  IF TtsValidationError(text) # Undefined
        THEN Reply("tts", 400, {"success", "error"},
                   {"message", "statusCode"}, FALSE, NoHealth,
                   [asked EXCEPT !.errorMessage = TtsValidationError(text)])
        ELSE IF TtsConfigError(result) # Undefined
        THEN Reply("tts", 500, {"success", "error"},
                   {"message", "statusCode"}, FALSE, NoHealth,
                   [asked EXCEPT !.outcome = outcome, !.calls = result.calls,
                                 !.errorMessage = "TTS generation failed: "
                                     \o TtsConfigError(result)])
        ELSE Reply("tts", 200, {"success", "data", "message"}, {}, TRUE,
                   NoHealth,
                   [asked EXCEPT !.outcome = outcome, !.calls = result.calls,
                                 !.audioUrl = result.audioUrl,
                                 !.audioSize = result.audioSize])

\* ------------------------------------------------------- ChatInterface
\* the values of the textarea: empty, blank, a message
InputMessages == {"", " ", "hi"}

\* message.trim()
Trim(text) == IF text = " " THEN "" ELSE text

\* the component: the isLoading and inputMessage states, the
\* apiService.sendTextMessage calls pending and made, and what became of
\* the last submit
Ui(isLoading, inputMessage, inFlight, sends, lastSubmit) ==
    [isLoading |-> isLoading, inputMessage |-> inputMessage,
     inFlight |-> inFlight, sends |-> sends, lastSubmit |-> lastSubmit]

\* useState(false), useState('')
InitialUi == Ui(FALSE, "", 0, 0, "none")

\* GET /conversation/history/:sessionId: the response of the route
HistoryResponse(store, sessionId) ==
    IF ~ Truthy(sessionId)
    THEN [status |-> 400, success |-> FALSE,
          data |-> GetChatHistory([k \in {} |-> UndefinedSession], Undefined),
          message |-> "Session ID is required"]
    ELSE [status |-> 200, success |-> TRUE,
          data |-> GetChatHistory(store, sessionId),
          message |-> IF GetChatHistory(store, sessionId).found
                      THEN "Chat history retrieved successfully"
                      ELSE "No chat history found for this session"]

\* no history query answered yet
NoHistory ==
    [status |-> 0, success |-> FALSE,
     data |-> GetChatHistory([k \in {} |-> UndefinedSession], Undefined),
     message |-> Undefined]

Init ==
    /\ chatSessions = [k \in {} |-> UndefinedSession]
    /\ req = [r \in Requests |-> IdleRequest]
    /\ last = Exchange(IdleRequest, NoBody, NoError, NoResponse)
    /\ minted = 0
    /\ now = 1
    /\ defaultAssistantId \in {Undefined, "asst_1"}
    /\ received = 0
    /\ succeeded = [k \in StoreKeys |-> 0]
    /\ overlapped = {}
    /\ writes = [k \in StoreKeys |-> 0]
    /\ history = NoHistory
    /\ reply = NoReply
    /\ ui = InitialUi

\* the route's two validations: the 400 body it answers with, or Undefined
ValidationError(message) ==
    IF MessageInvalid(message)
    THEN "Message is required and must be a non-empty string"
    ELSE IF MessageTooLong(message)
    THEN "Message is too long. Maximum length is 1000 characters"
    ELSE Undefined

\* a request answered by the route's validation
RejectedRequest(message, sessionId) ==
    Exchange([IdleRequest EXCEPT !.message = message, !.sessionId = sessionId],
             NoBody, NoError, ValidationResponse(ValidationError(message)))

\* generateTextResponse up to its await: the request as it waits for /chat
AwaitingRequest(message, sessionId, store, uuid, assistantId) ==
    [pc |-> "awaiting", message |-> message, sessionId |-> sessionId,
     currentSessionId |-> CurrentSessionId(sessionId, uuid),
     sessionData |-> Get(store, CurrentSessionId(sessionId, uuid)),
     chatPayload |-> ChatPayload(message, sessionId,
                        Get(store, CurrentSessionId(sessionId, uuid)),
                        assistantId),
     calls |-> 1]

\* a lock taken before the store is read and held until the call is answered
PostConversationText_Locked(r, message, sessionId) ==
    /\ req[r].pc = "idle"
    /\ \A q \in Requests : req[q].pc # "awaiting"
    /\ received < MaxReceived
    /\ received' = received + 1
    /\ IF ValidationError(message) # Undefined
       THEN /\ last' = RejectedRequest(message, sessionId)
            /\ UNCHANGED <<req, minted>>
       ELSE /\ req' = [req EXCEPT ![r] =
                  AwaitingRequest(message, sessionId, chatSessions,
                                  Uuid(minted + 1), defaultAssistantId)]
            /\ minted' = IF Truthy(sessionId) THEN minted ELSE minted + 1
            /\ UNCHANGED last
    /\ UNCHANGED <<chatSessions, now, defaultAssistantId, succeeded, writes,
                   history, overlapped, reply, ui>>

\* POST /conversation/text, from the arrival of the body to the first await;
\* a request takes the first free place of req
PostConversationText(r, message, sessionId) ==
    /\ req[r].pc = "idle"
    /\ \A q \in Requests : q < r => req[q].pc = "awaiting"
    /\ received < MaxReceived
    /\ received' = received + 1
    /\ IF ValidationError(message) # Undefined
       THEN /\ last' = RejectedRequest(message, sessionId)
            /\ UNCHANGED <<req, minted, overlapped>>
       ELSE /\ req' = [req EXCEPT ![r] =
                  AwaitingRequest(message, sessionId, chatSessions,
                                  Uuid(minted + 1), defaultAssistantId)]
            /\ minted' = IF Truthy(sessionId) THEN minted ELSE minted + 1
            /\ overlapped' =
                  IF \E q \in Requests \ {r} :
                        /\ req[q].pc = "awaiting"
                        /\ req[q].currentSessionId = req'[r].currentSessionId
                  THEN overlapped \cup {req'[r].currentSessionId}
                  ELSE overlapped
            /\ UNCHANGED last
    /\ UNCHANGED <<chatSessions, now, defaultAssistantId, succeeded, writes,
                   history, reply, ui>>

\* the store written only for a session that had no record
UpstreamSuccess_WritesOnlyNew(r, data, t) ==
    /\ req[r].pc = "awaiting"
    /\ now' = t
    /\ IF req[r].sessionData = UndefinedSession
       THEN /\ chatSessions' = Set(chatSessions, req[r].currentSessionId,
                   UpdatedSessionData(req[r].currentSessionId,
                                      req[r].sessionData, data.id, t))
            /\ writes' = [writes EXCEPT ![req[r].currentSessionId] = @ + 1]
       ELSE UNCHANGED <<chatSessions, writes>>
    /\ last' = Exchange(req[r], data, NoError,
                        SuccessResponse(req[r].currentSessionId, data))
    /\ req' = [req EXCEPT ![r] = IdleRequest]
    /\ succeeded' = [succeeded EXCEPT ![req[r].currentSessionId] = @ + 1]
    /\ UNCHANGED <<minted, defaultAssistantId, received, overlapped, history, reply, ui>>

\* the write dropped when the record changed while the call was pending
UpstreamSuccess_KeepsNewerRecord(r, data, t) ==
    /\ req[r].pc = "awaiting"
    /\ now' = t
    /\ IF Get(chatSessions, req[r].currentSessionId) = req[r].sessionData
       THEN chatSessions' = Set(chatSessions, req[r].currentSessionId,
                UpdatedSessionData(req[r].currentSessionId,
                                   req[r].sessionData, data.id, t))
       ELSE UNCHANGED chatSessions
    /\ last' = Exchange(req[r], data, NoError,
                        SuccessResponse(req[r].currentSessionId, data))
    /\ req' = [req EXCEPT ![r] = IdleRequest]
    /\ writes' = [writes EXCEPT ![req[r].currentSessionId] = @ + 1]
    /\ succeeded' = [succeeded EXCEPT ![req[r].currentSessionId] = @ + 1]
    /\ UNCHANGED <<minted, defaultAssistantId, received, overlapped, history,
                   reply, ui>>

\* the rest of generateTextResponse and of the route after /chat answered
\* 2xx; t is the clock reading of the write
UpstreamSuccess(r, data, t) ==
    /\ req[r].pc = "awaiting"
    /\ now' = t
    /\ chatSessions' = Set(chatSessions, req[r].currentSessionId,
           UpdatedSessionData(req[r].currentSessionId, req[r].sessionData,
                              data.id, t))
    /\ last' = Exchange(req[r], data, NoError,
                        SuccessResponse(req[r].currentSessionId, data))
    /\ req' = [req EXCEPT ![r] = IdleRequest]
    /\ writes' = [writes EXCEPT ![req[r].currentSessionId] = @ + 1]
    /\ succeeded' = [succeeded EXCEPT ![req[r].currentSessionId] = @ + 1]
    /\ UNCHANGED <<minted, defaultAssistantId, received, overlapped, history, reply, ui>>

\* the store written before the outcome of the call is known
UpstreamFailure_WritesStore(r, error) ==
    /\ req[r].pc = "awaiting"
    /\ chatSessions' = Set(chatSessions, req[r].currentSessionId,
           UpdatedSessionData(req[r].currentSessionId, req[r].sessionData,
                              Undefined, now))
    /\ writes' = [writes EXCEPT ![req[r].currentSessionId] = @ + 1]
    /\ last' = Exchange(req[r], NoBody, error, ErrorResponse(error))
    /\ req' = [req EXCEPT ![r] = IdleRequest]
    /\ UNCHANGED <<minted, now, defaultAssistantId, received, succeeded,
                   overlapped, history, reply, ui>>

\* the /chat call sent a second time before the failure is answered
UpstreamFailure_Retries(r, error) ==
    /\ req[r].pc = "awaiting"
    /\ IF req[r].calls < 2
       THEN /\ req' = [req EXCEPT ![r].calls = @ + 1]
            /\ UNCHANGED last
       ELSE /\ last' = Exchange(req[r], NoBody, error, ErrorResponse(error))
            /\ req' = [req EXCEPT ![r] = IdleRequest]
    /\ UNCHANGED <<chatSessions, minted, now, defaultAssistantId, received,
                   succeeded, overlapped, writes, history, reply, ui>>

\* the rejection caught by nothing: the request is never answered
UpstreamFailure_Unhandled(r, error) ==
    /\ req[r].pc = "awaiting"
    /\ req' = [req EXCEPT ![r].pc = "hung"]
    /\ UNCHANGED <<chatSessions, last, minted, now, defaultAssistantId,
                   received, succeeded, overlapped, writes, history, reply, ui>>

\* the catch block, asyncHandler and errorHandler after /chat failed
UpstreamFailure(r, error) ==
    /\ req[r].pc = "awaiting"
    /\ last' = Exchange(req[r], NoBody, error, ErrorResponse(error))
    /\ req' = [req EXCEPT ![r] = IdleRequest]
    /\ UNCHANGED <<chatSessions, minted, now, defaultAssistantId, received,
                   succeeded, overlapped, writes, history, reply, ui>>

\* a record with no turns left behind for a queried id that had none
GetConversationHistory_CreatesRecord(sessionId) ==
    /\ history' = HistoryResponse(chatSessions, sessionId)
    /\ chatSessions' =
          IF Truthy(sessionId) /\ sessionId \notin DOMAIN chatSessions
          THEN Set(chatSessions, sessionId,
                   [UndefinedSession EXCEPT !.sessionId = sessionId,
                                            !.lastChatId = "k1"])
          ELSE chatSessions
    /\ UNCHANGED <<req, last, minted, now, defaultAssistantId,
                   received, succeeded, overlapped, writes, reply, ui>>

\* GET /conversation/history/:sessionId
GetConversationHistory(sessionId) ==
    /\ history' = HistoryResponse(chatSessions, sessionId)
    /\ UNCHANGED <<chatSessions, req, last, minted, now, defaultAssistantId,
                   received, succeeded, overlapped, writes, reply, ui>>

\* app.use('*'): a request no route matches
UnknownRoute ==
    /\ reply' = NotFoundReply
    /\ UNCHANGED <<chatSessions, req, last, minted, now, defaultAssistantId,
                   received, succeeded, overlapped, writes, history, ui>>

\* GET /api
GetApi(vapiOk, apiKey, elevenOk, throws) ==
    /\ reply' = HealthReply(CheckServicesHealth(vapiOk, apiKey, elevenOk),
                            throws)
    /\ UNCHANGED <<chatSessions, req, last, minted, now, defaultAssistantId,
                   received, succeeded, overlapped, writes, history, ui>>

\* POST /conversation/tts
PostConversationTts(text, apiKey, outcome) ==
    /\ reply' = TtsReply(text, apiKey, outcome)
    /\ UNCHANGED <<chatSessions, req, last, minted, now, defaultAssistantId,
                   received, succeeded, overlapped, writes, history, ui>>

\* onChange of the textarea, which is disabled while isLoading
UiType(text) ==
    /\ ~ ui.isLoading
    /\ ui' = [ui EXCEPT !.inputMessage = text]
    /\ UNCHANGED <<chatSessions, req, last, minted, now, defaultAssistantId,
                   received, succeeded, overlapped, writes, history, reply>>

\* handleSubmit and handleKeyPress: sendTextMessage(inputMessage) up to its
\* await; the state updates are committed before the next event
UiSubmit ==
    /\ ui.sends < MaxReceived
    /\ IF Trim(ui.inputMessage) = "" \/ ui.isLoading
       THEN ui' = [ui EXCEPT !.lastSubmit = "ignored"]
       ELSE ui' = Ui(TRUE, "", ui.inFlight + 1, ui.sends + 1, "sent")
    /\ UNCHANGED <<chatSessions, req, last, minted, now, defaultAssistantId,
                   received, succeeded, overlapped, writes, history, reply>>

\* the loading flag left set when the send completes
UiSettle_KeepsLoading ==
    /\ ui.inFlight > 0
    /\ ui' = [ui EXCEPT !.inFlight = @ - 1]
    /\ UNCHANGED <<chatSessions, req, last, minted, now, defaultAssistantId,
                   received, succeeded, overlapped, writes, history, reply>>

\* sendTextMessage after its await: the try or the catch, then the finally
UiSettle ==
    /\ ui.inFlight > 0
    /\ ui' = [ui EXCEPT !.inFlight = @ - 1, !.isLoading = FALSE]
    /\ UNCHANGED <<chatSessions, req, last, minted, now, defaultAssistantId,
                   received, succeeded, overlapped, writes, history, reply>>

\* the clock readings a write can take: time does not run backwards
ClockReadings == {t \in now..(now + 1) : t <= MaxClock}

Next ==
    \/ \E r \in Requests, message \in TurnMessages, sessionId \in SuppliedIds :
          PostConversationText(r, message, sessionId)
    \/ \E r \in Requests, id \in ResponseIds, t \in ClockReadings :
          UpstreamSuccess(r, StandardBody(id), t)
    \/ \E r \in Requests, error \in UpstreamErrors : UpstreamFailure(r, error)

Spec == Init /\ [][Next]_vars

\* The same handlers driven with every shape of message, by callers that
\* send no sessionId, an empty one or a malformed one.
NextValidation ==
    \/ \E r \in Requests, message \in Messages, sessionId \in UncheckedIds :
          PostConversationText(r, message, sessionId)
    \/ \E r \in Requests, id \in ChatIds :
          UpstreamSuccess(r, StandardBody(id), now)
    \/ \E r \in Requests, error \in UpstreamErrors : UpstreamFailure(r, error)

SpecValidation == Init /\ [][NextValidation]_vars

\* The same handlers driven with every shape of 2xx body.
NextReply ==
    \/ \E r \in Requests, sessionId \in CallerIds :
          PostConversationText(r, Msg("string", 0, 1, 0), sessionId)
    \/ \E r \in Requests, data \in ResponseBodies : UpstreamSuccess(r, data, now)
    \/ \E r \in Requests :
          UpstreamFailure(r, AxiosError(FALSE, 0, Undefined,
                                        "timeout of 30000ms exceeded",
                                        "ECONNABORTED"))

SpecReply == Init /\ [][NextReply]_vars

\* the ids of the history queries: any string can stand in the path
HistoryIds == CallerIds \cup {Uuid(1)}

\* Turns and history queries, interleaved.
NextHistory ==
    \/ \E r \in Requests, sessionId \in SuppliedIds :
          PostConversationText(r, Msg("string", 0, 1, 0), sessionId)
    \/ \E r \in Requests : UpstreamSuccess(r, StandardBody("k1"), now)
    \/ \E r \in Requests :
          UpstreamFailure(r, AxiosError(FALSE, 0, Undefined,
                                        "timeout of 30000ms exceeded",
                                        "ECONNABORTED"))
    \/ \E sessionId \in HistoryIds : GetConversationHistory(sessionId)

SpecHistory == Init /\ [][NextHistory]_vars

\* the values config.elevenlabs.apiKey can have
ApiKeys == {Undefined, "xi_1"}

\* The other routes, with turns in between.
NextRoutes ==
    \/ \E r \in Requests, message \in TurnMessages, sessionId \in CallerIds :
          PostConversationText(r, message, sessionId)
    \/ \E r \in Requests : UpstreamSuccess(r, StandardBody("k1"), now)
    \/ \E r \in Requests, error \in UpstreamErrors : UpstreamFailure(r, error)
    \/ UnknownRoute
    \/ \E vapiOk \in BOOLEAN, apiKey \in ApiKeys, elevenOk \in BOOLEAN,
          throws \in BOOLEAN : GetApi(vapiOk, apiKey, elevenOk, throws)
    \/ \E text \in TtsTexts, apiKey \in ApiKeys, outcome \in ElevenOutcomes :
          PostConversationTts(text, apiKey, outcome)

SpecRoutes == Init /\ [][NextRoutes]_vars

\* The chat component, with the turns of the backend in between.
NextUi ==
    \/ \E r \in Requests, sessionId \in CallerIds :
          PostConversationText(r, Msg("string", 0, 1, 0), sessionId)
    \/ \E r \in Requests : UpstreamSuccess(r, StandardBody("k1"), now)
    \/ \E r \in Requests :
          UpstreamFailure(r, AxiosError(FALSE, 0, Undefined,
                                        "timeout of 30000ms exceeded",
                                        "ECONNABORTED"))
    \/ \E text \in InputMessages : UiType(text)
    \/ UiSubmit
    \/ UiSettle

SpecUi == Init /\ [][NextUi]_vars

\* the /chat call of request r settles: it returns, fails or times out
Settles(r) ==
    \/ UpstreamSuccess(r, StandardBody("k1"), now)
    \/ UpstreamFailure(r, AxiosError(FALSE, 0, Undefined,
                                     "timeout of 30000ms exceeded",
                                     "ECONNABORTED"))

\* Turns whose /chat calls settle in the end (axios timeout: 30000).
SpecLive ==
    Init /\ [][NextHistory]_vars /\ \A r \in Requests : WF_vars(Settles(r))

TypeOK ==
    /\ DOMAIN chatSessions \subseteq StoreKeys
    /\ minted \in 0..MaxReceived
    /\ received \in 0..MaxReceived
    /\ now \in 1..MaxClock
    /\ \A r \in Requests : req[r].pc \in {"idle", "awaiting"}

\* ------------------------------------------------------- steps of a request
\* request r is accepted by the route and its /chat call is sent
Accepted(r) == req[r].pc = "idle" /\ req'[r].pc = "awaiting"

\* the /chat call of request r returns 2xx and the request is answered
Succeeded(r) ==
    req[r].pc = "awaiting" /\ req'[r].pc = "idle" /\ last'.res.status = 200

\* the /chat call of request r fails and the request is answered
Failed(r) ==
    req[r].pc = "awaiting" /\ req'[r].pc = "idle" /\ last'.res.status # 200

\* a body is answered by the route's validation
Rejected == received' # received /\ req' = req

\* the store's entry of k, its absence included
Entry(store, k) == <<k \in DOMAIN store, Get(store, k)>>

\* C1: a generateTextResponse call whose upstream call fails writes nothing:
\* neither the step that sends the call nor the step that handles the
\* failure changes the store entry of the call's session (or any other).
C1_FailureLeavesStore ==
    [][\A r \in Requests :
          /\ Accepted(r) =>
                Entry(chatSessions', req'[r].currentSessionId)
                    = Entry(chatSessions, req'[r].currentSessionId)
          /\ Failed(r) =>
                /\ Entry(chatSessions', req[r].currentSessionId)
                      = Entry(chatSessions, req[r].currentSessionId)
                /\ chatSessions' = chatSessions]_vars

\* a turn of a session that already had a record was answered with the
\* upstream error
C1_Witness ==
    /\ last.calls = 1
    /\ last.res.status = 500
    /\ last.currentSessionId \in DOMAIN chatSessions
    /\ chatSessions[last.currentSessionId].lastChatId \in ChatIds

Present(v) == v # Undefined

\* C3 (as stated): every /chat request contains the message and either a
\* previousChatId or an assistant configuration (assistant / assistantId),
\* never both.
C3_TokenOrConfigNeverBoth ==
    \A r \in Requests :
        req[r].pc = "awaiting" =>
            /\ req[r].chatPayload.input = req[r].message
            /\ ~ ( /\ Present(req[r].chatPayload.previousChatId)
                   /\ \/ Present(req[r].chatPayload.assistant)
                      \/ Present(req[r].chatPayload.assistantId) )

\* C3 (amended): every /chat request contains the message and exactly one
\* of assistantId (when one is configured) and the transient assistant;
\* a continuing turn carries the stored token as previousChatId in
\* addition, a new-session turn carries no previousChatId.
C3_ConfigAlwaysTokenWhenContinuing ==
    \A r \in Requests :
        req[r].pc = "awaiting" =>
            /\ req[r].chatPayload.input = req[r].message
            /\ Present(req[r].chatPayload.assistantId)
                  # Present(req[r].chatPayload.assistant)
            /\ Present(req[r].chatPayload.assistantId)
                  <=> Present(defaultAssistantId)
            /\ IF Truthy(req[r].sessionId)
                  /\ Present(req[r].sessionData.lastChatId)
               THEN req[r].chatPayload.previousChatId
                       = req[r].sessionData.lastChatId
               ELSE ~ Present(req[r].chatPayload.previousChatId)

\* a continuing turn is in flight whose request carries a token and an
\* assistant configuration
C3_Witness ==
    \E r \in Requests :
        /\ req[r].pc = "awaiting"
        /\ Present(req[r].chatPayload.previousChatId)
        /\ \/ Present(req[r].chatPayload.assistant)
           \/ Present(req[r].chatPayload.assistantId)

\* C4: for a session whose turns were issued one after another, whatever
\* turns of other sessions ran in between, the stored messagesCount and the
\* one getChatHistory reports equal the number of its successful turns.
C4_CountEqualsSuccessfulTurns ==
    \A k \in StoreKeys :
        k \notin overlapped =>
            /\ Get(chatSessions, k).messagesCount = succeeded[k]
            /\ GetChatHistory(chatSessions, k).messagesCount = succeeded[k]

\* a session had two successful turns one after the other while another
\* session had a successful turn too
C4_Witness ==
    \E k \in StoreKeys, j \in StoreKeys :
        /\ k # j
        /\ k \notin overlapped
        /\ succeeded[k] = 2
        /\ succeeded[j] >= 1
        /\ GetChatHistory(chatSessions, k).messagesCount = 2

\* C5 (as stated): from one state to the next no session's messagesCount
\* decreases, and every successful turn increases the messagesCount of its
\* session by exactly one, also with several requests of the session in
\* flight.
C5_CountMonotoneOnePerTurn ==
    [][\A k \in StoreKeys :
          /\ Get(chatSessions', k).messagesCount
                >= Get(chatSessions, k).messagesCount
          /\ \A r \in Requests :
                (Succeeded(r) /\ req[r].currentSessionId = k) =>
                    Get(chatSessions', k).messagesCount
                        = Get(chatSessions, k).messagesCount + 1]_vars

\* what the claim's words say of a message
Unacceptable(m) ==
    \/ m.type # "string"
    \/ m.lead + m.core + m.trail = 0
    \/ m.core = 0
    \/ m.lead + m.core + m.trail > 1000

\* C6: a missing, non-string, empty, whitespace-only or over-1000-character
\* message is answered 400 without a /chat call and without a change of
\* the store, and every other message, one of exactly 1000 characters
\* included, is accepted.
C6_BadMessageRejectedEarly ==
    [][/\ Rejected =>
            /\ Unacceptable(last'.message)
            /\ last'.res.status = 400
            /\ ~ last'.res.success
            /\ last'.calls = 0
            /\ chatSessions' = chatSessions
       /\ \A r \in Requests :
            Accepted(r) => ~ Unacceptable(req'[r].message)]_vars

\* an over-long message was answered 400 while a message of exactly 1000
\* characters is in flight
C6_Witness ==
    /\ last.res.status = 400
    /\ last.calls = 0
    /\ last.message.lead + last.message.core + last.message.trail = 1001
    /\ last.message.core = 999
    /\ \E r \in Requests :
          /\ req[r].pc = "awaiting"
          /\ req[r].message.lead + req[r].message.core + req[r].message.trail = 1000

\* C7 (as stated): a request with a malformed sessionId never reaches the
\* upstream call.
C7_MalformedIdNeverUpstream ==
    \A r \in Requests :
        req[r].pc = "awaiting" => req[r].sessionId \notin MalformedIds

\* the session ids of the requests in flight
InFlightIds == {req[q].currentSessionId : q \in {x \in Requests : req[x].pc = "awaiting"}}

\* C8: a valid message without sessionId gets a session id that no record,
\* no request in flight and no earlier request has, its /chat request
\* carries no previousChatId, and the success response returns that id.
C8_MintedIdFresh ==
    [][\A r \in Requests :
          /\ (Accepted(r) /\ ~ Truthy(req'[r].sessionId)) =>
                /\ Truthy(req'[r].currentSessionId)
                /\ req'[r].currentSessionId \notin DOMAIN chatSessions
                /\ req'[r].currentSessionId \notin InFlightIds
                /\ req'[r].currentSessionId \notin {Uuid(n) : n \in 1..minted}
                /\ req'[r].currentSessionId \notin CallerIds \cup MalformedIds
                /\ ~ Present(req'[r].chatPayload.previousChatId)
          /\ (Succeeded(r) /\ ~ Truthy(req[r].sessionId)) =>
                /\ last'.res.sessionId = req[r].currentSessionId
                /\ last'.res.sessionId \notin DOMAIN chatSessions]_vars

\* a second message without sessionId was answered with its own new id
\* while the store already had records
C8_Witness ==
    /\ last.res.status = 200
    /\ ~ Truthy(last.sessionId)
    /\ minted >= 2
    /\ Cardinality(DOMAIN chatSessions) >= 2
    /\ last.res.sessionId \in DOMAIN chatSessions

\* C9: a valid message with a caller-supplied sessionId that has no record
\* is not rejected; its /chat request carries no previousChatId, and on
\* success the record is written under that very id with messagesCount 1.
C9_UnknownIdAdopted ==
    [][/\ Rejected => ValidationError(last'.message) # Undefined
       /\ \A r \in Requests :
            /\ (/\ Accepted(r)
                /\ Truthy(req'[r].sessionId)
                /\ req'[r].sessionId \notin DOMAIN chatSessions) =>
                  /\ req'[r].currentSessionId = req'[r].sessionId
                  /\ ~ Present(req'[r].chatPayload.previousChatId)
            /\ (/\ Succeeded(r)
                /\ Truthy(req[r].sessionId)
                /\ req[r].sessionData = UndefinedSession) =>
                  /\ req[r].sessionId \in DOMAIN chatSessions'
                  /\ chatSessions'[req[r].sessionId].sessionId = req[r].sessionId
                  /\ chatSessions'[req[r].sessionId].messagesCount = 1]_vars

\* the first turn of a caller-chosen id succeeded and its record counts 1
C9_Witness ==
    /\ last.res.status = 200
    /\ last.sessionId \in CallerIds
    /\ last.sessionId \in DOMAIN chatSessions
    /\ succeeded[last.sessionId] = 1
    /\ chatSessions[last.sessionId].messagesCount = 1

\* C10: every record's sessionId field equals its key and stays so, a
\* record once written stays under its key, and a turn sent with sessionId
\* S is answered with sessionId S and writes the record of key S.
C10_SessionIdImmutable ==
    [][/\ \A k \in DOMAIN chatSessions :
             /\ k \in DOMAIN chatSessions'
             /\ chatSessions'[k].sessionId = chatSessions[k].sessionId
       /\ \A k \in DOMAIN chatSessions' : chatSessions'[k].sessionId = k
       /\ \A r \in Requests :
             (Succeeded(r) /\ Truthy(req[r].sessionId)) =>
                /\ last'.res.sessionId = req[r].sessionId
                /\ DOMAIN chatSessions' = DOMAIN chatSessions \cup {req[r].sessionId}
                /\ \A k \in DOMAIN chatSessions \ {req[r].sessionId} :
                      chatSessions'[k] = chatSessions[k]
                /\ chatSessions'[req[r].sessionId].sessionId = req[r].sessionId]_vars

\* the second successful turn of a session was answered with the id it
\* was sent with
C10_Witness ==
    /\ last.res.status = 200
    /\ Truthy(last.sessionId)
    /\ last.res.sessionId = last.sessionId
    /\ succeeded[last.sessionId] = 2
    /\ chatSessions[last.sessionId].sessionId = last.sessionId
    /\ chatSessions[last.sessionId].messagesCount = 2

\* ------------------------------------------------------ reply extraction
\* the contents of the assistant entries of a turn list
AssistantContents(output) ==
    IF output.kind = "array"
    THEN {output.items[i].content :
             i \in {j \in 1..Len(output.items) : output.items[j].role = "assistant"}}
    ELSE {}

\* the content of the last assistant entry of a turn list
LastAssistantContent(output) ==
    output.items[CHOOSE i \in 1..Len(output.items) :
                    /\ output.items[i].role = "assistant"
                    /\ \A j \in (i + 1)..Len(output.items) :
                          output.items[j].role # "assistant"].content

\* the first of content, message, response that is there; the canned
\* string when none is
FlatFallback(data) ==
    IF data.content \notin {Undefined, EmptyString} THEN data.content
    ELSE IF data.message \notin {Undefined, EmptyString} THEN data.message
    ELSE IF data.response \notin {Undefined, EmptyString} THEN data.response
    ELSE "I'm here to help! Could you please rephrase your question?"

C12_LastAssistantEntryWins ==
    (/\ last.res.status = 200
     /\ last.data.output.kind = "array"
     /\ Cardinality({i \in 1..Len(last.data.output.items) :
                        last.data.output.items[i].role = "assistant"}) > 1)
    => last.res.response = LastAssistantContent(last.data.output)

\* C13 (as stated): whenever the turn list gives no assistant text (no
\* turn list, no assistant entry, or assistant entries without text), the
\* reply is the content field if there, else the message field, else the
\* response field, and the canned string only when none is there.
C13_OrderedFallback ==
    (/\ last.res.status = 200
     /\ AssistantContents(last.data.output) \subseteq {EmptyString})
    => last.res.response = FlatFallback(last.data)

\* C14: every successful turn returns a non-empty reply, and a body with
\* no assistant text and no flat field is answered with the canned string.
C14_ReplyNeverEmpty ==
    last.res.status = 200 =>
        /\ last.res.response \notin {Undefined, EmptyString}
        /\ (/\ AssistantContents(last.data.output) \subseteq {EmptyString}
            /\ last.data.content \in {Undefined, EmptyString}
            /\ last.data.message \in {Undefined, EmptyString}
            /\ last.data.response \in {Undefined, EmptyString})
           => last.res.response
                = "I'm here to help! Could you please rephrase your question?"

\* a body with an assistant entry without text and an empty content field
\* was answered with the canned string
C14_Witness ==
    /\ last.res.status = 200
    /\ last.data.output = Output("array", <<Turn("assistant", EmptyString)>>)
    /\ last.data.content = EmptyString
    /\ last.data.message = Undefined
    /\ last.data.response = Undefined
    /\ last.res.response = FallbackResponse


\* C15: the store is written exactly once per successful upstream turn and
\* never otherwise: in every step the number of chatSessions.set calls of a
\* session id grows by one exactly when a /chat call of that id is answered
\* 2xx in that step, an entry whose count did not grow is unchanged, and
\* the count of writes of an id equals its count of successful turns.
C15_OneWritePerSuccessfulTurn ==
    [][\A k \in StoreKeys :
          /\ writes'[k] \in {writes[k], writes[k] + 1}
          /\ writes'[k] = writes[k] + 1
                <=> \E r \in Requests :
                       Succeeded(r) /\ req[r].currentSessionId = k
          /\ writes'[k] = writes[k]
                => Entry(chatSessions', k) = Entry(chatSessions, k)
          /\ writes'[k] = succeeded'[k]]_vars

\* a session had two successful turns and two writes
C15_Witness ==
    \E k \in StoreKeys :
        /\ writes[k] = 2
        /\ succeeded[k] = 2
        /\ last.res.status = 200
        /\ last.currentSessionId = k

\* C16: an accepted message makes at most one /chat call: a request is
\* sent with one call, a pending request changes only by being answered,
\* and a failed call is answered with the error after that one call.
C16_AtMostOneUpstreamCall ==
    [][\A r \in Requests :
          /\ req'[r].calls <= 1
          /\ Accepted(r) => req'[r].calls = 1
          /\ (req[r].pc = "awaiting" /\ req'[r] # req[r])
                => /\ req'[r] = IdleRequest
                   /\ last'.calls = 1
                   /\ last'.currentSessionId = req[r].currentSessionId
          /\ Failed(r)
                => /\ ~ last'.res.success
                   /\ last'.error # NoError
                   /\ Truthy(last'.res.errorMessage)]_vars

\* a call that timed out was answered with the error after one call and
\* nothing is pending
C16_Witness ==
    /\ last.calls = 1
    /\ last.error.code = "ECONNABORTED"
    /\ ~ last.res.success
    /\ \A r \in Requests : req[r].pc = "idle"

\* C17: createdAt of a session is set once: a record appears only by a
\* successful turn, with createdAt the clock reading of that write, and a
\* record that exists keeps its createdAt in every step.
C17_CreatedAtSetOnce ==
    [][\A k \in StoreKeys :
          /\ k \in DOMAIN chatSessions
                => /\ k \in DOMAIN chatSessions'
                   /\ chatSessions'[k].createdAt = chatSessions[k].createdAt
          /\ (k \notin DOMAIN chatSessions /\ k \in DOMAIN chatSessions')
                => /\ \E r \in Requests :
                         Succeeded(r) /\ req[r].currentSessionId = k
                   /\ chatSessions'[k].createdAt = now']_vars

\* C18: a history query changes nothing but its own answer; for an id the
\* store does not hold the answer is a success with messagesCount 0; and a
\* message that arrives with an id whose last query found nothing, and
\* that had no successful turn, is sent as the first turn of a new session.
C18_UnknownHistoryIsEmptyAndLeavesStore ==
    [][/\ history' # history
          => /\ UNCHANGED <<chatSessions, req, last, minted, now,
                            defaultAssistantId, received, succeeded,
                            overlapped, writes, reply, ui>>
             /\ history'.data.sessionId \notin DOMAIN chatSessions
                   => /\ history'.status = 200
                      /\ history'.success
                      /\ ~ history'.data.found
                      /\ history'.data.messagesCount = 0
                      /\ history'.data.lastChatId = Undefined
       /\ \A r \in Requests :
             ( /\ Accepted(r)
               /\ history.success
               /\ ~ history.data.found
               /\ req'[r].sessionId = history.data.sessionId
               /\ succeeded[history.data.sessionId] = 0 )
             => /\ req'[r].currentSessionId = history.data.sessionId
                /\ req'[r].sessionData = UndefinedSession
                /\ req'[r].chatPayload.previousChatId = Undefined]_vars

\* the history of an unseen id was answered empty and a message with that
\* id is in flight as a first turn, the id still not in the store
C18_Witness ==
    /\ history.status = 200
    /\ history.success
    /\ ~ history.data.found
    /\ history.data.messagesCount = 0
    /\ history.data.sessionId \notin DOMAIN chatSessions
    /\ \E r \in Requests :
          /\ req[r].pc = "awaiting"
          /\ req[r].sessionId = history.data.sessionId
          /\ req[r].sessionData = UndefinedSession
          /\ req[r].chatPayload.previousChatId = Undefined

\* the message of the upstream when it supplied one, else of the transport
UpstreamMessage(error) == OrElse(error.dataMessage, error.message)

\* C19: the response to a failed /chat call is an error that carries the
\* message of the upstream (the transport's message when it supplied none)
\* and, when the upstream answered with a status, that status.
C19_ErrorCarriesUpstreamMessageAndStatus ==
    last.error # NoError
        => /\ ~ last.res.success
           /\ last.res.errorMessage
                 \in { UpstreamMessage(last.error),
                       "Failed to generate text response: "
                           \o UpstreamMessage(last.error) }
           /\ last.error.response => last.res.status = last.error.status

\* C20: nothing is held across the /chat call: while a request is pending,
\* every pending request can be answered and write the store, and (a place
\* and the budget of requests allowing) a new message with the pending
\* request's session id or another id can read the store as it is now and
\* send its own call.
C20_NoLockAcrossCall ==
    \A r \in Requests :
        req[r].pc = "awaiting"
            => /\ \A q \in Requests :
                     req[q].pc = "awaiting"
                         => ENABLED ( /\ UpstreamSuccess(q, StandardBody("k1"),
                                                         now)
                                      /\ req[q].currentSessionId
                                            \in DOMAIN chatSessions' )
               /\ ( /\ received < MaxReceived
                    /\ \E q \in Requests : req[q].pc = "idle" )
                     => \A sessionId \in {req[r].currentSessionId}
                                             \cup CallerIds :
                           ENABLED (\E q \in Requests :
                              /\ PostConversationText(q, Msg("string", 0, 1, 0),
                                                      sessionId)
                              /\ req'[q].pc = "awaiting"
                              /\ req'[q].sessionData
                                    = Get(chatSessions, sessionId))

\* two calls for one session id were pending together; one was answered and
\* wrote the record while the other, which had read no record, still waits
C20_Witness ==
    \E r \in Requests :
        /\ req[r].pc = "awaiting"
        /\ req[r].sessionData = UndefinedSession
        /\ req[r].currentSessionId \in overlapped
        /\ req[r].currentSessionId \in DOMAIN chatSessions
        /\ succeeded[req[r].currentSessionId] >= 1


\* README, Error Responses: the fields every error body is said to have
DocumentedErrorKeys == {"success", "error", "timestamp", "path", "method"}

\* C21: every error response (a validation failure of a route, the 404 of
\* an unknown route, an answer of errorHandler) has the documented shape:
\* success false, an error object with message and statusCode, and
\* timestamp, path and method at the top level.
C21_ErrorResponsesDocumentedShape ==
    /\ last.res.status >= 400
          => /\ last.res.keys = DocumentedErrorKeys
             /\ {"message", "statusCode"} \subseteq last.res.errorKeys
             /\ ~ last.res.success
    /\ (reply.route \in {"unknown", "tts"} /\ reply.status >= 400)
          => /\ reply.keys = DocumentedErrorKeys
             /\ {"message", "statusCode"} \subseteq reply.errorKeys
             /\ ~ reply.success

\* the number of services a health answer reports as connected
Connected(health) ==
    (IF health.vapi = "connected" THEN 1 ELSE 0)
        + (IF health.elevenlabs = "connected" THEN 1 ELSE 0)

\* C22: GET /api says healthy exactly when both services are connected,
\* degraded exactly when one is, critical exactly when none is or the
\* check threw, and answers 200, 206 and 503 respectively.
C22_HealthStatusMatchesServices ==
    reply.route = "health"
        => /\ reply.health.overall = "healthy"
                 <=> (~ reply.health.threw /\ Connected(reply.health) = 2)
           /\ reply.health.overall = "degraded"
                 <=> (~ reply.health.threw /\ Connected(reply.health) = 1)
           /\ reply.health.overall = "critical"
                 <=> (reply.health.threw \/ Connected(reply.health) = 0)
           /\ reply.status = 200 <=> reply.health.overall = "healthy"
           /\ reply.status = 206 <=> reply.health.overall = "degraded"
           /\ reply.status = 503 <=> reply.health.overall = "critical"

\* a health check found Vapi connected and ElevenLabs not
C22_Witness ==
    /\ reply.route = "health"
    /\ reply.health.vapi = "connected"
    /\ reply.health.elevenlabs = "disconnected"
    /\ reply.health.overall = "degraded"
    /\ reply.status = 206

\* C23: POST /conversation/tts answers success only with audio from
\* ElevenLabs; without an API key, or when the call fails or returns a
\* status other than 200 or an empty body, it answers an error; and
\* without an API key no request is sent.
C23_TtsAudioOrError ==
    (reply.route = "tts" /\ reply.status # 400)
        => /\ reply.success
                 => /\ Truthy(reply.tts.audioUrl)
                    /\ reply.tts.audioSize > 0
           /\ ( \/ ~ Truthy(reply.tts.apiKey)
                \/ reply.tts.outcome.kind # "response"
                \/ reply.tts.outcome.status # 200
                \/ reply.tts.outcome.data.length = 0 )
                 => (~ reply.success /\ reply.status >= 400)
           /\ ~ Truthy(reply.tts.apiKey) => reply.tts.calls = 0


\* C24: two requests for one session id can race. A message that arrives
\* while a call for its id is pending, the record unchanged since that call
\* read it, is sent with the same previousChatId; each call that succeeds
\* writes the id of its own response as the stored token, whatever else is
\* pending or was written meanwhile, and the calls still pending keep the
\* token they read: the token stored in the end is that of the response
\* that came last.
C24_RacingTurnsLastResponseWins ==
    [][\A r \in Requests :
          /\ Accepted(r)
                => \A q \in Requests \ {r} :
                      ( /\ req[q].pc = "awaiting"
                        /\ req[q].currentSessionId = req'[r].currentSessionId
                        /\ req[q].sessionId = req'[r].sessionId
                        /\ Get(chatSessions, req[q].currentSessionId)
                              = req[q].sessionData )
                      => req'[r].chatPayload.previousChatId
                            = req[q].chatPayload.previousChatId
          /\ Succeeded(r)
                => /\ chatSessions'[req[r].currentSessionId].lastChatId
                         = last'.data.id
                   /\ \A q \in Requests \ {r} :
                         req[q].pc = "awaiting" => req'[q] = req[q]]_vars

\* two calls for one session id are pending and both carry the token the
\* store still holds
C24_Witness ==
    \E r, q \in Requests :
        /\ r # q
        /\ req[r].pc = "awaiting"
        /\ req[q].pc = "awaiting"
        /\ req[r].currentSessionId = req[q].currentSessionId
        /\ req[r].chatPayload.previousChatId \in ChatIds
        /\ req[q].chatPayload.previousChatId
              = req[r].chatPayload.previousChatId
        /\ Get(chatSessions, req[r].currentSessionId).lastChatId
              = req[r].chatPayload.previousChatId

\* C25: a successful turn replaces the stored token by its own: right after
\* the write the stored lastChatId is the id of the response, which is the
\* chatId answered to the caller; and a message for that session accepted
\* next is sent with that chatId as previousChatId.
C25_TokenReplacedEachTurn ==
    [][\A r \in Requests :
          /\ Succeeded(r)
                => /\ last'.res.chatId = last'.data.id
                   /\ Get(chatSessions', last'.res.sessionId).lastChatId
                         = last'.res.chatId
          /\ ( /\ Accepted(r)
               /\ last.res.status = 200
               /\ req'[r].sessionId = last.res.sessionId )
                => req'[r].chatPayload.previousChatId = last.res.chatId]_vars

\* the third turn of a session is pending with the chatId the second turn
\* was answered with
C25_Witness ==
    \E r \in Requests :
        /\ req[r].pc = "awaiting"
        /\ last.res.status = 200
        /\ req[r].sessionId = last.res.sessionId
        /\ succeeded[req[r].currentSessionId] = 2
        /\ last.res.chatId \in ChatIds
        /\ req[r].chatPayload.previousChatId = last.res.chatId

\* C26: a session with a successful turn has a record with a token: every
\* record of the store has messagesCount >= 1 and a lastChatId, whatever
\* the successful response held.
C26_RecordAlwaysHasToken ==
    \A k \in StoreKeys :
        /\ succeeded[k] >= 1 => k \in DOMAIN chatSessions
        /\ k \in DOMAIN chatSessions
              => /\ chatSessions[k].messagesCount >= 1
                 /\ Truthy(chatSessions[k].lastChatId)

\* C27: a turn of one session id leaves the records of all other ids as
\* they were, in the step that sends its call and in the step that answers
\* it, with success or with failure.
C27_OtherSessionsUntouched ==
    [][\A r \in Requests :
          /\ Accepted(r)
                => \A k \in StoreKeys \ {req'[r].currentSessionId} :
                      Entry(chatSessions', k) = Entry(chatSessions, k)
          /\ (Succeeded(r) \/ Failed(r))
                => \A k \in StoreKeys \ {req[r].currentSessionId} :
                      Entry(chatSessions', k) = Entry(chatSessions, k)]_vars

\* a turn of one session was answered with success while a call of another
\* session, which has a record, is pending
C27_Witness ==
    \E r \in Requests :
        /\ req[r].pc = "awaiting"
        /\ last.res.status = 200
        /\ last.currentSessionId # req[r].currentSessionId
        /\ last.currentSessionId \in DOMAIN chatSessions
        /\ req[r].currentSessionId \in DOMAIN chatSessions

\* C28: every accepted message is answered, once: a pending request is in
\* the end answered; the step that answers it sends one response, a
\* success with a reply or an error, and frees its place; and a response
\* is sent only by a rejection or by answering one pending request.
C28_EveryAcceptedMessageAnsweredOnce ==
    /\ \A r \in Requests : (req[r].pc = "awaiting") ~> (req[r].pc = "idle")
    /\ [][/\ \A r \in Requests :
                (req[r].pc = "awaiting" /\ req'[r] # req[r])
                   => /\ req'[r] = IdleRequest
                      /\ last'.message = req[r].message
                      /\ \/ last'.res.success /\ Truthy(last'.res.response)
                         \/ ~ last'.res.success
                               /\ Truthy(last'.res.errorMessage)
          /\ last' # last
                => \/ Rejected
                   \/ \E r \in Requests :
                         /\ req[r].pc = "awaiting"
                         /\ req'[r].pc = "idle"
                         /\ \A q \in Requests \ {r} : req'[q] = req[q]]_vars

\* every request of the run was received and none is pending: the last one
\* was answered with a reply
C28_Witness ==
    /\ received = MaxReceived
    /\ \A r \in Requests : req[r].pc = "idle"
    /\ last.calls = 1
    /\ last.res.success
    /\ Truthy(last.res.response)

\* C29: the chat component has at most one send pending: isLoading is set
\* exactly while a send is pending, a submit while loading sends nothing,
\* and the step that completes a send clears isLoading.
C29_OneSendInFlight ==
    [][/\ ui'.inFlight <= 1
       /\ ui'.isLoading <=> ui'.inFlight = 1
       /\ ui.isLoading
             => (ui'.sends = ui.sends /\ ui'.inFlight <= ui.inFlight)
       /\ ui'.inFlight < ui.inFlight => ~ ui'.isLoading]_vars

\* a second message is being sent after the first send completed
C29_Witness ==
    /\ ui.sends = 2
    /\ ui.isLoading
    /\ ui.inFlight = 1
    /\ ui.lastSubmit = "sent"

====
